---- MODULE Spec2Model ----
(***************************************************************************)
(* Model of the connection and event-routing core of n8n-nodes-lerty:      *)
(* the LertyWebSocket class (connect / reconnect / subscribe / unsubscribe *)
(* / disconnect over a phoenix Socket) and the LertyTrigger message        *)
(* pipeline (processMessage, shouldTrigger, webhook).                      *)
(*                                                                         *)
(* The phoenix Socket and Channel objects are the environment: a socket    *)
(* is created by connect(), then opens, reports errors and closes on its   *)
(* own; a join is acknowledged positively or negatively by the backend     *)
(* while the socket that carries the channel is open.                      *)
(***************************************************************************)
EXTENDS Integers, Sequences, FiniteSets, TLC

\* ---------------------------------------------------------------- bounds
\* continuations of unsubscribe() and disconnect() calls waiting at a time
MaxPending == 2
\* Socket objects created in a run of the reconnect specification
MaxSockets == 4
\* largest configured maxReconnectAttempts
MaxCfgAttempts == 3
\* Socket and Channel objects created in a run of Spec, SpecDelivery or SpecTrigger
MaxObjects == 4
\* Socket and Channel objects created in a run of SpecRegistry
MaxRegistryObjects == 3
\* requests returned to the workflow in a run of SpecWebhook
MaxWorkflowData == 1
\* webhook requests that wait for getCredentials or for a download at one
\* time, in a run of SpecFiles and in a run of SpecWebhook
MaxInFlight == 2
MaxInFlightWebhook == 1

\* inbound messages in a run of SpecDelivery
MaxMessages == 2

Topics == {"t1", "t2"}

\* ------------------------------------------------------------- constants
\* default of LertyWebSocketConfig.reconnectAfterMs
ReconnectAfterMs == 5000

VARIABLES
  maxReconnectAttempts, \* this.config.maxReconnectAttempts
  reconnectAfterMs,     \* this.config.reconnectAfterMs
  socket,               \* this.socket: 0 is null, otherwise a socket id
  sockets,              \* transport state of every Socket object created
  promise,              \* the promise that the owner's latest connect() call returned
  isConnected,          \* this.isConnected
  reconnectAttempts,    \* this.reconnectAttempts
  timers,               \* pending setTimeout delays scheduled by handleReconnect
  channels,             \* every Channel object created by subscribe()
  subscriptions,        \* this.subscriptions, a Map in insertion order
  received,             \* invocations of subscription callbacks: <<channel, message>>
  emitted,              \* calls of this.emit, in order
  params,               \* node parameters: eventTypes, messageFilters, fileHandling, ...
  trigger,              \* the trigger() call of the node: its position and local variables
  microtasks,           \* continuations of unsubscribe(), disconnect() and webhook() calls
                        \* after their awaits, in the order in which they will run
  requests,             \* webhook() calls that wait in processMessage for getCredentials
                        \* or for downloadFileFromUrl
  last                  \* the call made in the latest step, if any, and its outcome

vars == <<maxReconnectAttempts, reconnectAfterMs, socket, sockets, promise, isConnected,
          reconnectAttempts, timers, channels, subscriptions, received,
          emitted, params, trigger, microtasks, requests, last>>

SocketIds == 1..MaxSockets

NoMsg == [none |-> "none"]

NoResponse == [status |-> 0, body |-> [none |-> TRUE]]

\* a step that is not a webhook request has no request headers
NoHeaders == [none |-> ""]

\* a call made by the owner of the connection, or a webhook request, and its
\* outcome; inbound is the object that getBodyData() returned to a webhook()
\* call, as it is when the call returns
Ev(op, res) ==
  [op |-> op, res |-> res, msg |-> NoMsg, response |-> NoResponse, headers |-> NoHeaders,
   inbound |-> NoMsg]

\* the latest step was a transport, backend or timer event, not a call
NoCall == Ev("none", "")

\* ------------------------------------------------------- registry helpers
RECURSIVE IndexOfTopic(_, _, _)
IndexOfTopic(subs, topic, i) ==
  IF i > Len(subs) THEN 0
  ELSE IF subs[i].topic = topic THEN i
  ELSE IndexOfTopic(subs, topic, i + 1)

\* Map.has
SubsHas(subs, topic) == IndexOfTopic(subs, topic, 1) # 0

\* Map.set: an existing key keeps its position, a new key is appended
SubsSet(subs, topic, ch) ==
  LET i == IndexOfTopic(subs, topic, 1)
      e == [topic |-> topic, channel |-> ch]
  IN IF i = 0 THEN Append(subs, e) ELSE [subs EXCEPT ![i] = e]

\* Map.delete
SubsDelete(subs, topic) ==
  LET i == IndexOfTopic(subs, topic, 1)
  IN IF i = 0 THEN subs
     ELSE SubSeq(subs, 1, i - 1) \o SubSeq(subs, i + 1, Len(subs))

\* getSubscriptions(): Array.from(this.subscriptions.keys())
getSubscriptions == [i \in 1..Len(subscriptions) |-> subscriptions[i].topic]

\* isTopicSubscribed(topic)
isTopicSubscribed(topic) == SubsHas(subscriptions, topic)

\* getConnectionStatus()
getConnectionStatus == isConnected

\* ------------------------------------------------------------- reconnect
\* a guard that allows one reconnect too many
ShouldReconnectOffByOne(attempts, max) == attempts <= max

\* handleReconnect: the guard
ShouldReconnect(attempts, max) == attempts < max

\* handleReconnect: the counter after the call
AttemptsAfterReconnect(attempts, max) ==
  IF ShouldReconnect(attempts, max) THEN attempts + 1 ELSE attempts

\* a backoff that doubles the delay with every attempt
RECURSIVE ReconnectDelayExponential(_, _)
ReconnectDelayExponential(afterMs, attempts) ==
  IF attempts <= 1 THEN afterMs * attempts
  ELSE 2 * ReconnectDelayExponential(afterMs, attempts - 1)

\* handleReconnect: the delay handed to setTimeout,
\* this.config.reconnectAfterMs * this.reconnectAttempts
ReconnectDelay(afterMs, attempts) == afterMs * attempts

\* an onOpen callback that leaves the counter as it is
AttemptsKeptAfterOpen(attempts) == attempts

\* the onOpen callback: this.reconnectAttempts = 0
AttemptsAfterOpen(attempts) == 0

\* setTimeout: the pending timers are kept in order of their delay
RECURSIVE SetTimeout(_, _)
SetTimeout(ts, delay) ==
  IF ts = <<>> THEN <<delay>>
  ELSE IF delay <= Head(ts) THEN <<delay>> \o ts
  ELSE <<Head(ts)>> \o SetTimeout(Tail(ts), delay)

\* handleReconnect: the pending timers after the call
TimersAfterReconnect(ts, attempts, max, afterMs) ==
  IF ShouldReconnect(attempts, max)
  THEN SetTimeout(ts, ReconnectDelay(afterMs, attempts + 1))
  ELSE ts

\* ------------------------------------------------------------ JS values
\* the value of a property that an object does not have
Undefined == "<undefined>"

\* the value of new Date().toISOString() at the time of the call
Now == "<now>"

\* payload.metadata || {} when the payload has no metadata
EmptyObject == "<{}>"

\* o.k on a JS object: a record is a function from its keys
Get(o, k) == IF k \in DOMAIN o THEN o[k] ELSE Undefined

\* getNodeParameter(name, fallback) on a collection parameter
GetOr(o, k, fallback) == IF k \in DOMAIN o THEN o[k] ELSE fallback

\* JS truthiness of a string or undefined
Truthy(v) == v # Undefined /\ v # ""

\* a || b
OrElse(a, b) == IF Truthy(a) THEN a ELSE b

\* the number 42 as the value of a property
FortyTwo == "<42>"

\* the value is a string: it has the method toLowerCase
IsString(v) == v # Undefined /\ v # FortyTwo

\* the characters of the strings that occur as content or as a substring filter
Chars(s) ==
  CASE s = "hello world" -> <<"h", "e", "l", "l", "o", " ", "w", "o", "r", "l", "d">>
    [] s = "Hello World" -> <<"H", "e", "l", "l", "o", " ", "W", "o", "r", "l", "d">>
    [] s = "hello" -> <<"h", "e", "l", "l", "o">>
    [] s = "HELLO" -> <<"H", "E", "L", "L", "O">>
    [] s = "bye" -> <<"b", "y", "e">>
    [] OTHER -> <<>>

\* String.prototype.toLowerCase on one character
LowerChar(c) ==
  CASE c = "H" -> "h" [] c = "E" -> "e" [] c = "L" -> "l" [] c = "O" -> "o"
    [] c = "W" -> "w" [] c = "B" -> "b" [] c = "Y" -> "y" [] OTHER -> c

\* a conversion that keeps the case of every character
toLowerCaseKeepsCase(cs) == cs

\* String.prototype.toLowerCase
toLowerCase(cs) == [i \in 1..Len(cs) |-> LowerChar(cs[i])]

\* String.prototype.includes
includes(hay, needle) ==
  \E i \in 0..(Len(hay) - Len(needle)) : SubSeq(hay, i + 1, i + Len(needle)) = needle

\* Array.prototype.includes
ArrayIncludes(arr, v) == \E i \in 1..Len(arr) : arr[i] = v

\* ------------------------------------------------------------ normalizer
\* a payload that is null or undefined
Null == [null |-> "null"]

\* a payload that is a string: a property read on it gives undefined
TextPayload == [primitive |-> "text"]

\* payload.id raises a TypeError when the payload is null or undefined
ParseRaises(payload) == "null" \in DOMAIN payload

\* a normalizer that prefers the camel-case name of the conversation
parseMessageCamelCaseFirst(payload) ==
  [id |-> OrElse(Get(payload, "id"), ""),
   type |-> OrElse(Get(payload, "type"), "user_message"),
   content |-> OrElse(Get(payload, "content"), ""),
   conversationId |-> OrElse(Get(payload, "conversationId"),
                             OrElse(Get(payload, "conversation_id"), "")),
   userId |-> Get(payload, "user_id"),
   agentId |-> Get(payload, "agent_id"),
   timestamp |-> OrElse(Get(payload, "timestamp"), Now),
   metadata |-> OrElse(Get(payload, "metadata"), EmptyObject),
   fileUrl |-> Get(payload, "file_url"),
   fileName |-> Get(payload, "file_name"),
   fileType |-> Get(payload, "file_type")]

\* LertyWebSocket.parseMessage, on a payload on which it does not raise
parseMessage(payload) ==
  [id |-> OrElse(Get(payload, "id"), ""),
   type |-> OrElse(Get(payload, "type"), "user_message"),
   content |-> OrElse(Get(payload, "content"), ""),
   conversationId |-> OrElse(Get(payload, "conversation_id"), ""),
   userId |-> Get(payload, "user_id"),
   agentId |-> Get(payload, "agent_id"),
   timestamp |-> OrElse(Get(payload, "timestamp"), Now),
   metadata |-> OrElse(Get(payload, "metadata"), EmptyObject),
   fileUrl |-> Get(payload, "file_url"),
   fileName |-> Get(payload, "file_name"),
   fileType |-> Get(payload, "file_type")]

\* ---------------------------------------------------------------- filter
\* a filter that consults the allow-list of event types even when it is empty
shouldTriggerEmptyListRejects(message, eventTypes, messageFilters) ==
  IF ~ArrayIncludes(eventTypes, Get(message, "type")) THEN FALSE
  ELSE IF Truthy(Get(messageFilters, "userId"))
          /\ Get(message, "userId") # Get(messageFilters, "userId") THEN FALSE
  ELSE IF Truthy(Get(messageFilters, "conversationId"))
          /\ Get(message, "conversationId") # Get(messageFilters, "conversationId") THEN FALSE
  ELSE IF Truthy(Get(messageFilters, "agentId"))
          /\ Get(message, "agentId") # Get(messageFilters, "agentId") THEN FALSE
  ELSE IF Truthy(Get(messageFilters, "contentContains"))
          /\ (~Truthy(Get(message, "content"))
              \/ ~includes(toLowerCase(Chars(Get(message, "content"))),
                           toLowerCase(Chars(Get(messageFilters, "contentContains")))))
       THEN FALSE
  ELSE TRUE

\* shouldTrigger(message, eventTypes, messageFilters)
shouldTrigger(message, eventTypes, messageFilters) ==
  IF Len(eventTypes) > 0 /\ ~ArrayIncludes(eventTypes, Get(message, "type")) THEN FALSE
  ELSE IF Truthy(Get(messageFilters, "userId"))
          /\ Get(message, "userId") # Get(messageFilters, "userId") THEN FALSE
  ELSE IF Truthy(Get(messageFilters, "conversationId"))
          /\ Get(message, "conversationId") # Get(messageFilters, "conversationId") THEN FALSE
  ELSE IF Truthy(Get(messageFilters, "agentId"))
          /\ Get(message, "agentId") # Get(messageFilters, "agentId") THEN FALSE
  ELSE IF Truthy(Get(messageFilters, "contentContains"))
          /\ (~Truthy(Get(message, "content"))
              \/ ~includes(toLowerCase(Chars(Get(message, "content"))),
                           toLowerCase(Chars(Get(messageFilters, "contentContains")))))
       THEN FALSE
  ELSE TRUE

\* shouldTrigger raises a TypeError (message.content.toLowerCase is not a
\* function): no earlier check returned, contentContains is set and the content
\* of the message is truthy and not a string
shouldTriggerRaises(message, eventTypes, messageFilters) ==
  /\ ~(Len(eventTypes) > 0 /\ ~ArrayIncludes(eventTypes, Get(message, "type")))
  /\ ~(Truthy(Get(messageFilters, "userId"))
        /\ Get(message, "userId") # Get(messageFilters, "userId"))
  /\ ~(Truthy(Get(messageFilters, "conversationId"))
        /\ Get(message, "conversationId") # Get(messageFilters, "conversationId"))
  /\ ~(Truthy(Get(messageFilters, "agentId"))
        /\ Get(message, "agentId") # Get(messageFilters, "agentId"))
  /\ Truthy(Get(messageFilters, "contentContains"))
  /\ Truthy(Get(message, "content"))
  /\ ~IsString(Get(message, "content"))

\* ------------------------------------------------------------ dispatcher
\* the characters of the MIME types and of the allow-list entries that occur
MimeChars(s) ==
  CASE s = "image/png" -> <<"i", "m", "a", "g", "e", "/", "p", "n", "g">>
    [] s = "text/plain" -> <<"t", "e", "x", "t", "/", "p", "l", "a", "i", "n">>
    [] s = "application/pdf" ->
         <<"a", "p", "p", "l", "i", "c", "a", "t", "i", "o", "n", "/", "p", "d", "f">>
    [] s = "application/octet-stream" ->
         <<"a", "p", "p", "l", "i", "c", "a", "t", "i", "o", "n", "/",
           "o", "c", "t", "e", "t", "-", "s", "t", "r", "e", "a", "m">>
    [] s = "image/*" -> <<"i", "m", "a", "g", "e", "/", "*">>
    [] s = "text/*" -> <<"t", "e", "x", "t", "/", "*">>
    [] s = "app/*" -> <<"a", "p", "p", "/", "*">>
    [] OTHER -> <<>>

\* String.prototype.endsWith
endsWith(cs, suffix) ==
  Len(cs) >= Len(suffix) /\ SubSeq(cs, Len(cs) - Len(suffix) + 1, Len(cs)) = suffix

\* String.prototype.startsWith
startsWith(cs, prefix) ==
  Len(cs) >= Len(prefix) /\ SubSeq(cs, 1, Len(prefix)) = prefix

\* allowedType.split('/')[0]: the characters before the first slash
RECURSIVE BeforeSlash(_)
BeforeSlash(cs) ==
  IF cs = <<>> \/ Head(cs) = "/" THEN <<>>
  ELSE <<Head(cs)>> \o BeforeSlash(Tail(cs))

\* 1024 * 1024: the bytes of one MB
MegaByte == 1048576

\* the Max File Size (MB) that processMessage uses when none is set
DefaultMaxFileSize == 10

\* the Allowed File Types that processMessage uses when none are set,
\* split at the commas
DefaultAllowedFileTypes == <<"image/*", "text/*", "application/pdf">>

\* (fileHandling.maxFileSize || 10) * 1024 * 1024
MaxFileSize(fileHandling) ==
  (IF GetOr(fileHandling, "maxFileSize", 0) = 0 THEN DefaultMaxFileSize
   ELSE fileHandling.maxFileSize) * MegaByte

\* (fileHandling.allowedFileTypes || 'image/*,text/*,application/pdf')
\* split at the commas: the allow-list is kept as the sequence of its entries
AllowedTypes(fileHandling) ==
  IF GetOr(fileHandling, "allowedFileTypes", <<>>) = <<>> THEN DefaultAllowedFileTypes
  ELSE fileHandling.allowedFileTypes

\* allowedTypes.some(...): an entry that ends with /* admits every type that
\* starts with the characters before its slash, any other entry its own type
IsAllowed(allowedTypes, type) ==
  \E i \in 1..Len(allowedTypes) :
     IF endsWith(MimeChars(allowedTypes[i]), <<"/", "*">>)
     THEN startsWith(MimeChars(type), BeforeSlash(MimeChars(allowedTypes[i])))
     ELSE type = allowedTypes[i]

\* FileUtils.extractFileInfo(url): the MIME type and the name of the file,
\* taken from the extension of the URL
extractFileInfo(url) ==
  CASE url = "http://files/a.png" -> [type |-> "image/png", name |-> "a.png"]
    [] url = "http://files/a.pdf" -> [type |-> "application/pdf", name |-> "a.pdf"]
    [] url = "http://files/a.txt" -> [type |-> "text/plain", name |-> "a.txt"]
    [] OTHER -> [type |-> "application/octet-stream", name |-> "file"]

\* FileUtils.downloadFileFromUrl returned a buffer of this length
Downloaded(length) == [st |-> "ok", length |-> length]

\* extractFileInfo, getCredentials or downloadFileFromUrl raised
DownloadRaises == [st |-> "raise", length |-> 0]

\* the binary property that processMessage adds after a download
BinaryFile(fileInfo, length) ==
  [mimeType |-> fileInfo.type, fileName |-> fileInfo.name, fileSize |-> length]

\* the conditions under which processMessage adds the binary property
AttachesBinary(message, fileHandling, download) ==
  /\ Truthy(Get(message, "fileUrl"))
  /\ fileHandling.downloadFiles
  /\ download.st = "ok"
  /\ IsAllowed(AllowedTypes(fileHandling), extractFileInfo(message.fileUrl).type)
  /\ download.length <= MaxFileSize(fileHandling)

\* processedMessage.binary = {file: {...}}: the object with the binary property
WithBinary(message, download) ==
  [k \in DOMAIN message \cup {"binary"} |->
     IF k = "binary" THEN BinaryFile(extractFileInfo(message.fileUrl), download.length)
     ELSE message[k]]

\* processMessage raises a TypeError on message.fileUrl when the message is
\* null, outside its try block
processMessageRaises(message) == "null" \in DOMAIN message

\* processMessage(triggerFunctions, message, fileHandling): the value that the
\* call returns, a copy of the message, with the downloaded file when the
\* download went through
processMessage(message, fileHandling, download) ==
  IF AttachesBinary(message, fileHandling, download) THEN WithBinary(message, download)
  ELSE message

\* a processMessage that works on the object it was given: processedMessage
\* is the message itself
SpreadSameObject(heap, ref) == [heap |-> heap, ref |-> ref]

\* const processedMessage = { ...message }: a new object with the properties
\* of the object at ref, in the heap of the call
Spread(heap, ref) == [heap |-> Append(heap, heap[ref]), ref |-> Len(heap) + 1]

\* processMessage reaches its awaits: the message has a fileUrl, files are
\* downloaded, extractFileInfo returned and the type of the file is allowed
AwaitsFile(message, fileHandling, extractRaises) ==
  /\ ~processMessageRaises(message)
  /\ Truthy(Get(message, "fileUrl"))
  /\ fileHandling.downloadFiles
  /\ ~extractRaises
  /\ IsAllowed(AllowedTypes(fileHandling), extractFileInfo(message.fileUrl).type)

\* a webhook() call inside processMessage, up to the first await of
\* processMessage or to its return. body is the request body as it arrived;
\* heap holds the objects of the call, the first of them the object that
\* getBodyData() returned, and processedMessage is the place of the copy in
\* it. pc is the await at which the call waits, or "returned", or "raised"
\* when message.fileUrl raised on a null message. fetch tells whether
\* extractFileInfo, getCredentials or downloadFileFromUrl raised ("raised"),
\* the download returned ("done"), or no download was started ("none").
processMessageBegins(body, headers, fileHandling, extractRaises) ==
  LET copy == Spread(<<body>>, 1)
  IN [body |-> body, headers |-> headers,
      heap |-> copy.heap, processedMessage |-> copy.ref,
      pc |-> IF processMessageRaises(body) THEN "raised"
             ELSE IF AwaitsFile(body, fileHandling, extractRaises) THEN "getCredentials"
             ELSE "returned",
      fetch |-> IF ~processMessageRaises(body) /\ Truthy(Get(body, "fileUrl"))
                   /\ fileHandling.downloadFiles /\ extractRaises
                THEN "raised" ELSE "none"]

\* the call after await downloadFileFromUrl(...): the buffer is attached to
\* processedMessage when it is within the ceiling, a raise is caught and
\* logged, and processMessage returns
processMessageEnds(r, fileHandling, download) ==
  [r EXCEPT !.heap[r.processedMessage] = processMessage(@, fileHandling, download),
            !.pc = "returned",
            !.fetch = IF download.st = "raise" THEN "raised" ELSE "done"]

\* the continuation of webhook() after await processMessage(...)
AfterProcessMessage(r) == [op |-> "webhook", request |-> r]

\* the sequence without its i-th element
RemoveAt(seq, i) == [j \in 1..(Len(seq) - 1) |-> IF j < i THEN seq[j] ELSE seq[j + 1]]

\* the callback that subscribeToTopics hands to websocket.subscribe: its body
\* is a comment, the message is dropped
SubscriptionCallback(out, message) == out

\* the branch of webhook() taken when shouldTrigger admits the message: its
\* body is a comment, nothing is emitted
WebhookEmit(out, processedMessage, admitted) == out

\* the webhookResponse that webhook() returns when nothing was raised
WebhookResponse(processedMessage, admitted) ==
  [status |-> 200, body |-> [received |-> TRUE]]

\* the webhookResponse that the catch block of webhook() returns
InternalServerError == [status |-> 500, body |-> [error |-> "Internal server error"]]

\* ---------------------------------------------- the webhook-only LertyTrigger
\* headers['x-lerty-signature'] || headers['authorization']
ReceivedToken(headers) ==
  OrElse(Get(headers, "x-lerty-signature"), Get(headers, "authorization"))

\* the webhookResponse of a request whose token is not the Secret Token
UnauthorizedResponse == [status |-> 401, body |-> [error |-> "Unauthorized"]]

\* the webhookResponse of a request whose type the Event Types do not list
FilteredResponse == [status |-> 200, body |-> [received |-> TRUE, filtered |-> TRUE]]

\* eventTypes.length > 0 && body.type && !eventTypes.includes(body.type)
FilteredByType(body, eventTypes) ==
  /\ Len(eventTypes) > 0
  /\ Truthy(Get(body, "type"))
  /\ ~ArrayIncludes(eventTypes, Get(body, "type"))

\* outputData: the body with agent_id, conversation_id and response_webhook
OutputData(body, agentId) ==
  [k \in DOMAIN body \cup {"agent_id", "conversation_id", "response_webhook"} |->
     CASE k = "agent_id" -> agentId
       [] k = "conversation_id" ->
            OrElse(OrElse(Get(body, "conversation_id"), Get(body, "conversationId")),
                   Get(body, "thread_id"))
       [] k = "response_webhook" ->
            OrElse(OrElse(Get(body, "response_webhook"), Get(body, "responseWebhook")),
                   Get(body, "callback_url"))
       [] OTHER -> body[k]]

\* ---------------------------------------------------------------- inputs
NoFilters == [none |-> ""]

\* the default of the Event Types property
DefaultEventTypes == <<"user_message", "agent_response">>

\* the parameters of a node that was not configured: eventTypes is read without
\* a fallback and gets the default of its declaration, messageFilters and
\* fileHandling fall back to {}
DefaultParams ==
  [eventTypes |-> DefaultEventTypes, messageFilters |-> NoFilters,
   fileHandling |-> [downloadFiles |-> FALSE]]

ChannelParams ==
  { DefaultParams,
    [eventTypes |-> <<"agent_response">>, messageFilters |-> NoFilters,
     fileHandling |-> [downloadFiles |-> TRUE]] }

ChannelPayloads ==
  { [type |-> "user_message", conversation_id |-> "c1", content |-> "hello world"],
    [type |-> "agent_response", conversation_id |-> "c1", content |-> "bye",
     file_url |-> "http://files/a.png"] }

\* the Secret Token of the Additional Fields collection: a parameter of the
\* webhook-only LertyTrigger, which LertyTrigger.node.ts does not declare
SecretTokens == {"", "s3cret"}

WebhookParams ==
  [eventTypes : {<<>>, <<"agent_response">>, <<"user_message">>,
                 <<"user_message", "agent_response">>},
   messageFilters : {NoFilters, [contentContains |-> "hello"],
                     [contentContains |-> "HELLO"], [conversationId |-> "c1"],
                     [userId |-> "u1"], [agentId |-> "a1"]},
   fileHandling : {[downloadFiles |-> FALSE], [downloadFiles |-> TRUE]},
   additionalFields : [secretToken : SecretTokens],
   agentId : {"a1"}]

\* getHeaderData(): the headers of a webhook request
RequestHeaders ==
  { [host |-> "n8n"],
    [k \in {"host", "x-lerty-signature"} |-> IF k = "host" THEN "n8n" ELSE "s3cret"],
    [k \in {"host", "x-lerty-signature"} |-> IF k = "host" THEN "n8n" ELSE "wrong"],
    [host |-> "n8n", authorization |-> "s3cret"] }

\* request bodies: two messages, two messages whose content is a number, one
\* of them with a file, and null
WebhookBodies ==
  { [type |-> "user_message", conversation_id |-> "c1", content |-> "hello world"],
    [type |-> "agent_response", conversationId |-> "c1", content |-> "bye",
     fileUrl |-> "http://files/a.png"],
    [type |-> "user_message", conversation_id |-> "c1", content |-> FortyTwo],
    [type |-> "agent_response", conversationId |-> "c1", content |-> FortyTwo,
     fileUrl |-> "http://files/a.png"],
    Null }

DownloadOutcomes == {Downloaded(1024), DownloadRaises}

\* payloads of a channel message: the three names of the conversation
\* together, each of the other two alone, a string and null
NormalizePayloads ==
  { [id |-> "m1", conversation_id |-> "c1", conversationId |-> "c2", thread_id |-> "c3"],
    [id |-> "m2", conversationId |-> "c2"],
    [id |-> "m3", thread_id |-> "c3", type |-> "agent_response", timestamp |-> "t0"],
    TextPayload,
    Null }

\* filter policies with any combination of the four message filters set; the
\* empty string is the default of a filter that is not set
FilterParams ==
  [eventTypes : {<<>>, <<"agent_response">>, <<"user_message", "agent_response">>},
   messageFilters : {NoFilters} \cup
     [userId : {"", "u1"}, conversationId : {"", "c1"}, agentId : {"", "a1"},
      contentContains : {"", "hello", "HELLO"}],
   fileHandling : {[downloadFiles |-> FALSE]}]

\* messages in which the type, the user, the agent and the content may be
\* absent, and in which the content may be a number
FilterMessages ==
  [type : {"user_message", "agent_response", Undefined},
   userId : {"u1", "u2", Undefined},
   conversationId : {"c1", "c2"},
   agentId : {"a1", Undefined},
   content : {"Hello World", "bye", Undefined, FortyTwo}]

\* values of the Reconnect Delay (ms) option
ReconnectDelays == {1000}

\* the connectionOptions collection: Reconnect on Error, Max Reconnect
\* Attempts and, when it was set, Reconnect Delay (ms)
ConnectionOptions ==
  [reconnectOnError : BOOLEAN, maxReconnectAttempts : 0..MaxCfgAttempts]
  \cup
  [reconnectOnError : BOOLEAN, maxReconnectAttempts : 0..MaxCfgAttempts,
   reconnectDelay : ReconnectDelays]

\* the LertyWebSocketConfig that trigger() hands to new LertyWebSocket: of the
\* connectionOptions it reads heartbeatInterval, reconnectDelay and
\* maxReconnectAttempts; reconnectOnError is not read
WebSocketConfig(p) ==
  [timeout |-> 10000,
   reconnectAfterMs |-> GetOr(p.connectionOptions, "reconnectDelay", ReconnectAfterMs),
   maxReconnectAttempts |-> GetOr(p.connectionOptions, "maxReconnectAttempts", 10)]

ReconnectParams ==
  { [eventTypes |-> DefaultEventTypes, messageFilters |-> NoFilters,
     fileHandling |-> [downloadFiles |-> FALSE], connectionOptions |-> o] :
    o \in ConnectionOptions }

\* `agent_chat:agent_${agentId}`
AgentTopic(agentId) ==
  CASE agentId = "a1" -> "agent_chat:agent_a1"
    [] agentId = "a2" -> "agent_chat:agent_a2"
    [] OTHER -> "agent_chat:agent_"

\* subscribeToTopics: the topics array built from the subscription parameters
ResolveTopics(p) ==
  CASE p.subscriptionMode = "single" -> <<p.topicPattern>>
    [] p.subscriptionMode = "multiple" ->
         IF "topicValues" \in DOMAIN p.topics
         THEN [i \in 1..Len(p.topics.topicValues) |-> p.topics.topicValues[i].topic]
         ELSE <<>>
    [] p.subscriptionMode = "agent" ->
         [i \in 1..Len(p.agents) |-> AgentTopic(p.agents[i])]
    [] OTHER -> <<>>

\* the subscription parameters of a trigger node
SubscriptionConfigs ==
  [subscriptionMode : {"single"}, topicPattern : {"t1", ""},
   topics : {[none |-> TRUE]}, agents : {<<>>}]
  \cup
  [subscriptionMode : {"multiple"}, topicPattern : {""},
   topics : {[none |-> TRUE], [topicValues |-> <<>>],
             [topicValues |-> <<[topic |-> "t1"], [topic |-> "t2"]>>],
             [topicValues |-> <<[topic |-> "t1"], [topic |-> "t1"]>>]},
   agents : {<<>>}]
  \cup
  [subscriptionMode : {"agent"}, topicPattern : {""},
   topics : {[none |-> TRUE]}, agents : {<<>>, <<"a1">>}]

ConnectionModes == {"websocket", "webhook", "auto"}

\* the connectionOptions of a trigger node: one reconnect attempt, with the
\* default Reconnect Delay or with one that was set
TriggerConnectionOptions ==
  { o \in ConnectionOptions : o.reconnectOnError /\ o.maxReconnectAttempts = 1 }

\* the parameters of a trigger node
TriggerParams ==
  { [connectionMode |-> m, subscriptionMode |-> c.subscriptionMode,
     topicPattern |-> c.topicPattern, topics |-> c.topics, agents |-> c.agents,
     eventTypes |-> DefaultEventTypes, messageFilters |-> NoFilters,
     fileHandling |-> [downloadFiles |-> FALSE],
     connectionOptions |-> o] :
    m \in ConnectionModes, c \in SubscriptionConfigs, o \in TriggerConnectionOptions }

\* the connection is used on its own: trigger() is not called
NoTrigger ==
  [pc |-> "none", topics |-> <<>>, channel |-> 0, isWebSocketConnected |-> FALSE]

\* ------------------------------------------------------------------ Init
InitConnection ==
  /\ socket = 0
  /\ sockets = [s \in SocketIds |-> "none"]
  /\ promise = [sock |-> 0, st |-> "none"]
  /\ isConnected = FALSE
  /\ reconnectAttempts = 0
  /\ timers = <<>>
  /\ channels = <<>>
  /\ subscriptions = <<>>
  /\ received = <<>>
  /\ emitted = <<>>
  /\ microtasks = <<>>
  /\ requests = <<>>
  /\ last = NoCall

\* the microtask queue is empty: the event loop hands over a transport,
\* backend, timer or HTTP event only then
Idle == microtasks = <<>>

\* --------------------------------------------------------------- connect
NewSocket == CHOOSE s \in SocketIds : sockets[s] = "none" /\
               \A r \in SocketIds : r < s => sockets[r] # "none"

CanCreateSocket == \E s \in SocketIds : sockets[s] = "none"

\* the body of connect(): returns at once on a live connection, otherwise
\* replaces this.socket by a new Socket and starts its handshake
ConnectBody ==
  IF socket # 0 /\ isConnected
  THEN UNCHANGED <<socket, sockets>>
  ELSE /\ CanCreateSocket
       /\ socket' = NewSocket
       /\ sockets' = [sockets EXCEPT ![NewSocket] = "connecting"]

\* the promise of a connect() call bound to socket s, after s opened
PromiseAfterOpen(p, s) ==
  IF p.sock = s /\ p.st = "pending" THEN [p EXCEPT !.st = "resolved"] ELSE p

\* the promise of a connect() call bound to socket s, after s reported an error
PromiseAfterError(p, s) ==
  IF p.sock = s /\ p.st = "pending" THEN [p EXCEPT !.st = "rejected"] ELSE p

\* connect(): the call and the promise it returns
ConnectCall ==
  /\ ConnectBody
  /\ promise' = IF socket # 0 /\ isConnected
                THEN [sock |-> socket, st |-> "resolved"]
                ELSE [sock |-> NewSocket, st |-> "pending"]
  /\ last' = Ev("connect", IF socket # 0 /\ isConnected THEN "already" ELSE "pending")
  /\ UNCHANGED <<maxReconnectAttempts, reconnectAfterMs, requests,
                 isConnected, reconnectAttempts, timers,
                 channels, subscriptions, received, emitted, params, microtasks>>

\* connect() called by the owner of the connection
Connect == ConnectCall /\ UNCHANGED trigger

\* the setTimeout callback of handleReconnect: this.connect().catch(...);
\* the promise of this call is dropped
ReconnectTimer(i) ==
  /\ Idle
  /\ i \in 1..Len(timers)
  /\ ConnectBody
  /\ UNCHANGED promise
  /\ timers' = SubSeq(timers, 1, i - 1) \o SubSeq(timers, i + 1, Len(timers))
  /\ last' = NoCall
  /\ UNCHANGED <<maxReconnectAttempts, reconnectAfterMs, requests, isConnected, reconnectAttempts,
                 channels, subscriptions, received, emitted, params, microtasks, trigger>>

\* socket.onOpen callback
OnOpen(s) ==
  /\ Idle
  /\ sockets[s] = "connecting"
  /\ sockets' = [sockets EXCEPT ![s] = "open"]
  /\ isConnected' = TRUE
  /\ reconnectAttempts' = AttemptsAfterOpen(reconnectAttempts)
  /\ promise' = PromiseAfterOpen(promise, s)
  /\ last' = NoCall
  /\ UNCHANGED <<maxReconnectAttempts, reconnectAfterMs, requests,
                 socket, timers, channels, subscriptions,
                 received, emitted, params, microtasks, trigger>>

\* socket.onError callback
OnError(s) ==
  /\ Idle
  /\ sockets[s] \in {"connecting", "open"}
  /\ isConnected' = FALSE
  /\ promise' = PromiseAfterError(promise, s)
  /\ last' = NoCall
  /\ UNCHANGED <<maxReconnectAttempts, reconnectAfterMs, requests,
                 socket, sockets, reconnectAttempts, timers,
                 channels, subscriptions, received, emitted, params, microtasks, trigger>>

\* the onClose callback: this.isConnected = false; this.handleReconnect()
OnCloseBody ==
  /\ isConnected' = FALSE
  /\ reconnectAttempts' = AttemptsAfterReconnect(reconnectAttempts, maxReconnectAttempts)
  /\ timers' = TimersAfterReconnect(timers, reconnectAttempts, maxReconnectAttempts,
                                    reconnectAfterMs)

\* socket.onClose callback after the transport closed on its own
OnClose(s) ==
  /\ Idle
  /\ sockets[s] \in {"connecting", "open"}
  /\ sockets' = [sockets EXCEPT ![s] = "closed"]
  /\ OnCloseBody
  /\ last' = NoCall
  /\ UNCHANGED <<maxReconnectAttempts, reconnectAfterMs, requests,
                 socket, promise, channels, subscriptions,
                 received, emitted, params, microtasks, trigger>>

\* socket.onClose callback delivered for a transport that disconnect() closed
OnCloseAfterDisconnect(s) ==
  /\ Idle
  /\ sockets[s] = "closing"
  /\ sockets' = [sockets EXCEPT ![s] = "closed_clean"]
  /\ OnCloseBody
  /\ last' = NoCall
  /\ UNCHANGED <<maxReconnectAttempts, reconnectAfterMs, requests,
                 socket, promise, channels, subscriptions,
                 received, emitted, params, microtasks, trigger>>

\* ------------------------------------------------------------- subscribe
\* the subscribe() call of a channel has not been rejected
NoError == [message |-> "", topic |-> "", detail |-> ""]

\* the payloads of a negative join acknowledgment: a string, or an object
\* with a reason
JoinErrors ==
  { [kind |-> "string", value |-> "unauthorized"],
    [kind |-> "object", reason |-> "unauthorized"] }

\* the payload of a refusal as a phoenix backend replies it
Unauthorized == [kind |-> "object", reason |-> "unauthorized"]

\* `${error}`: a string as it is, an object as "[object Object]"
TemplateString(v) == IF v.kind = "string" THEN v.value ELSE "[object Object]"

\* new Error(`Failed to subscribe to topic ${topic}: ${error}`)
SubscribeError(topic, error) ==
  [message |-> "Failed to subscribe to topic", topic |-> topic,
   detail |-> TemplateString(error)]

\* subscribe(topic, callback): the two guards
SubscribeOutcome(topic) ==
  IF socket = 0 \/ ~isConnected THEN "notconnected"
  ELSE IF SubsHas(subscriptions, topic) THEN "duplicate"
  ELSE "joining"

\* subscribe(topic, callback) up to channel.join(); the promise stays pending.
\* Every call passes a closure of its own, named after the channel it is bound to.
SubscribeCall(topic) ==
  /\ LET out == SubscribeOutcome(topic) IN
       /\ IF out = "joining"
          THEN channels' = Append(channels,
                 [topic |-> topic, sock |-> socket, st |-> "joining",
                  callback |-> Len(channels) + 1, error |-> NoError])
          ELSE UNCHANGED channels
       /\ last' = Ev("subscribe", out)
  /\ UNCHANGED <<maxReconnectAttempts, reconnectAfterMs, requests,
                 socket, sockets, promise, isConnected,
                 reconnectAttempts, timers, subscriptions, received, emitted, params, microtasks>>

\* subscribe(topic, callback) called by the owner of the connection
Subscribe(topic) == SubscribeCall(topic) /\ UNCHANGED trigger

\* the backend can answer on a channel whose socket is open
Reachable(c) == sockets[channels[c].sock] = "open"

\* .receive('ok', ...) of the join
JoinOk(c) ==
  /\ Idle
  /\ c \in 1..Len(channels)
  /\ channels[c].st = "joining"
  /\ Reachable(c)
  /\ subscriptions' = SubsSet(subscriptions, channels[c].topic, c)
  /\ channels' = [channels EXCEPT ![c].st = "joined"]
  /\ last' = NoCall
  /\ UNCHANGED <<maxReconnectAttempts, reconnectAfterMs, requests,
                 socket, sockets, promise, isConnected,
                 reconnectAttempts, timers, received, emitted, params, microtasks, trigger>>

\* .receive('error', ...) of the join: the promise of subscribe() is rejected
JoinError(c, error) ==
  /\ Idle
  /\ c \in 1..Len(channels)
  /\ channels[c].st = "joining"
  /\ Reachable(c)
  /\ channels' = [channels EXCEPT ![c].st = "rejected",
                                  ![c].error = SubscribeError(channels[c].topic, error)]
  /\ last' = NoCall
  /\ UNCHANGED <<maxReconnectAttempts, reconnectAfterMs, requests,
                 socket, sockets, promise, isConnected,
                 reconnectAttempts, timers, subscriptions, received, emitted,
                 params, microtasks, trigger>>

\* ----------------------------------------------------------- unsubscribe
\* the state of the channels after leave() on the channel registered for topic
LeaveChannel(chs, subs, topic) ==
  LET i == IndexOfTopic(subs, topic, 1)
  IN IF i = 0 THEN chs ELSE [chs EXCEPT ![subs[i].channel].st = "left"]

\* a step of unsubscribe() or disconnect() in which channel.leave() was called
\* on the channel registered for topic
LeaveEv(op, topic) == [Ev(op, "pending") EXCEPT !.msg = [leave |-> topic]]

\* the continuation of unsubscribe(topic) after await subscription.channel.leave();
\* by names the caller: the owner of the connection, or the loop of disconnect()
AfterLeave(topic, by) == [op |-> "unsubscribe", topic |-> topic, by |-> by]

\* the continuation of disconnect() after await this.unsubscribe(topic);
\* rejected tells that the promise of unsubscribe() was rejected, because
\* channel.leave() raised: disconnect() will throw when it resumes
AfterUnsubscribe(rejected) ==
  [op |-> "disconnect", topic |-> "", by |-> "disconnect", rejected |-> rejected]

\* an unsubscribe without its guard
HasSubscriptionUnguarded(subs, topic) == TRUE

\* unsubscribe: this.subscriptions.get(topic) is a subscription
HasSubscription(subs, topic) == SubsHas(subs, topic)

\* unsubscribe(topic) up to its await: channel.leave() either returns, and the
\* rest of the call waits in the microtask queue, or raises
Unsubscribe(topic, leaveRaises) ==
  /\ IF ~HasSubscription(subscriptions, topic)
     THEN /\ leaveRaises = FALSE
          /\ last' = Ev("unsubscribe", "noop")
          /\ UNCHANGED <<channels, microtasks>>
     ELSE IF leaveRaises
     THEN /\ last' = Ev("unsubscribe", "error")
          /\ UNCHANGED <<channels, microtasks>>
     ELSE /\ channels' = LeaveChannel(channels, subscriptions, topic)
          /\ microtasks' = Append(microtasks, AfterLeave(topic, "unsubscribe"))
          /\ last' = LeaveEv("unsubscribe", topic)
  /\ UNCHANGED <<maxReconnectAttempts, reconnectAfterMs, requests,
                 socket, sockets, promise, isConnected,
                 reconnectAttempts, timers, subscriptions, received, emitted,
                 params, trigger>>

\* unsubscribe(topic) after its await: this.subscriptions.delete(topic); the
\* call returns, which resumes the disconnect() that awaits it
UnsubscribeResumes ==
  /\ microtasks # <<>>
  /\ Head(microtasks).op = "unsubscribe"
  /\ subscriptions' = SubsDelete(subscriptions, Head(microtasks).topic)
  /\ IF Head(microtasks).by = "disconnect"
     THEN /\ microtasks' = Append(Tail(microtasks), AfterUnsubscribe(FALSE))
          /\ last' = Ev("disconnect", "pending")
     ELSE /\ microtasks' = Tail(microtasks)
          /\ last' = Ev("unsubscribe", "done")
  /\ UNCHANGED <<maxReconnectAttempts, reconnectAfterMs, requests,
                 socket, sockets, promise, isConnected,
                 reconnectAttempts, timers, channels, received, emitted,
                 params, trigger>>

\* ------------------------------------------------------------ disconnect
\* socket.disconnect(): the transport is closed by the client; its close event
\* may still be delivered to the onClose callback
SocketDisconnect(socks, s) ==
  [socks EXCEPT ![s] = IF @ \in {"connecting", "open"} THEN "closing" ELSE @]

\* a disconnect() that keeps its socket
SocketKeptAfterDisconnect(s) == s

\* this.socket = null
SocketAfterDisconnect(s) == 0

\* disconnect() from the next step of its for loop, with queue the microtasks
\* that wait at that moment. The iterator of the Map is live: the topics it
\* has visited were deleted before the loop resumes, so its next entry is the
\* first entry of the registry. With an entry: this.unsubscribe(topic) runs up
\* to its await, or raises with leave(), which rejects the promise of
\* unsubscribe(); disconnect() awaits that promise in both cases and goes on
\* in a later microtask. Without an entry the loop is over:
\* this.socket.disconnect() raises a TypeError when another call has set
\* this.socket to null in the meantime, otherwise the transport is closed.
DisconnectLoop(queue, leaveRaises) ==
  IF subscriptions # <<>>
  THEN /\ IF leaveRaises
          THEN /\ microtasks' = Append(queue, AfterUnsubscribe(TRUE))
               /\ last' = Ev("disconnect", "pending")
               /\ UNCHANGED channels
          ELSE /\ channels' = LeaveChannel(channels, subscriptions, subscriptions[1].topic)
               /\ microtasks' = Append(queue, AfterLeave(subscriptions[1].topic, "disconnect"))
               /\ last' = LeaveEv("disconnect", subscriptions[1].topic)
       /\ UNCHANGED <<socket, sockets, isConnected>>
  ELSE /\ leaveRaises = FALSE
       /\ microtasks' = queue
       /\ UNCHANGED channels
       /\ IF socket = 0
          THEN /\ last' = Ev("disconnect", "TypeError")
               /\ UNCHANGED <<socket, sockets, isConnected>>
          ELSE /\ sockets' = SocketDisconnect(sockets, socket)
               /\ socket' = SocketAfterDisconnect(socket)
               /\ isConnected' = FALSE
               /\ last' = Ev("disconnect", "done")

\* disconnect() up to its first await, or to its return when this.socket is
\* null or the registry is empty
DisconnectCall(leaveRaises) ==
  /\ IF socket = 0
     THEN /\ leaveRaises = FALSE
          /\ last' = Ev("disconnect", "noop")
          /\ UNCHANGED <<socket, sockets, isConnected, channels, microtasks>>
     ELSE DisconnectLoop(microtasks, leaveRaises)
  /\ UNCHANGED <<maxReconnectAttempts, reconnectAfterMs, requests, promise,
                 reconnectAttempts, timers,
                 subscriptions, received, emitted, params>>

\* disconnect() called by the owner of the connection
Disconnect(leaveRaises) == DisconnectCall(leaveRaises) /\ UNCHANGED trigger

\* disconnect() after await this.unsubscribe(topic): the error of a rejected
\* unsubscribe() is thrown and disconnect() is rejected with it, otherwise
\* the next step of its loop
DisconnectResumes(leaveRaises) ==
  /\ microtasks # <<>>
  /\ Head(microtasks).op = "disconnect"
  /\ IF Head(microtasks).rejected
     THEN /\ leaveRaises = FALSE
          /\ microtasks' = Tail(microtasks)
          /\ last' = Ev("disconnect", "error")
          /\ UNCHANGED <<socket, sockets, isConnected, channels>>
     ELSE DisconnectLoop(Tail(microtasks), leaveRaises)
  /\ UNCHANGED <<maxReconnectAttempts, reconnectAfterMs, requests, promise,
                 reconnectAttempts, timers,
                 subscriptions, received, emitted, params, trigger>>

\* the event loop runs the continuation at the head of the microtask queue
MicrotaskRuns ==
  \/ UnsubscribeResumes
  \/ \E r \in BOOLEAN : DisconnectResumes(r)

\* ------------------------------------------------------------- trigger()
\* trigger() has been called and has read its parameters and credentials
TriggerStarted ==
  [pc |-> "start", topics |-> <<>>, channel |-> 0, isWebSocketConnected |-> FALSE]

\* connectionMode === 'websocket' || connectionMode === 'auto'
UsesWebSocket(p) == p.connectionMode \in {"websocket", "auto"}

\* the catch block of trigger(): the failure is logged, and raised as a
\* NodeOperationError in 'websocket' mode only; otherwise trigger() goes on
\* and returns its closeFunction
AfterFailure(connectionMode) ==
  IF connectionMode = "websocket" THEN "raised" ELSE "active"

\* trigger() up to await websocket.connect(), or to its return in 'webhook' mode
TriggerStart ==
  /\ trigger.pc = "start"
  /\ IF UsesWebSocket(params)
     THEN /\ ConnectCall
          /\ trigger' = [trigger EXCEPT !.pc = "connect"]
     ELSE /\ trigger' = [trigger EXCEPT !.pc = "active"]
          /\ last' = NoCall
          /\ UNCHANGED <<maxReconnectAttempts, reconnectAfterMs, requests,
                         socket, sockets, promise, isConnected,
                         reconnectAttempts, timers, channels, subscriptions,
                         received, emitted, params, microtasks>>

\* the loop of subscribeToTopics over the topics still to subscribe: the next
\* websocket.subscribe call up to its await, a throw of that call, or the
\* return of trigger() when no topic is left
TriggerContinue(topics) ==
  IF topics = <<>>
  THEN /\ trigger' = [pc |-> "active", topics |-> <<>>, channel |-> 0,
                       isWebSocketConnected |-> TRUE]
       /\ last' = NoCall
       /\ UNCHANGED <<maxReconnectAttempts, reconnectAfterMs, requests,
                      socket, sockets, promise, isConnected,
                      reconnectAttempts, timers, channels, subscriptions,
                      received, emitted, params, microtasks>>
  ELSE /\ SubscribeCall(Head(topics))
       /\ trigger' = IF SubscribeOutcome(Head(topics)) = "joining"
                     THEN [pc |-> "join", topics |-> Tail(topics),
                           channel |-> Len(channels) + 1,
                           isWebSocketConnected |-> TRUE]
                     ELSE [pc |-> AfterFailure(params.connectionMode),
                           topics |-> <<>>, channel |-> 0,
                           isWebSocketConnected |-> TRUE]

\* await websocket.connect() returns: isWebSocketConnected = true, then
\* subscribeToTopics
TriggerConnected ==
  /\ trigger.pc = "connect"
  /\ promise.st = "resolved"
  /\ TriggerContinue(ResolveTopics(params))

\* await websocket.connect() raises
TriggerConnectFailed ==
  /\ trigger.pc = "connect"
  /\ promise.st = "rejected"
  /\ trigger' = [trigger EXCEPT !.pc = AfterFailure(params.connectionMode)]
  /\ last' = NoCall
  /\ UNCHANGED <<maxReconnectAttempts, reconnectAfterMs, requests,
                 socket, sockets, promise, isConnected,
                 reconnectAttempts, timers, channels, subscriptions, received,
                 emitted, params, microtasks>>

\* await websocket.subscribe(...) returns: the next topic of the loop
TriggerJoined ==
  /\ trigger.pc = "join"
  /\ channels[trigger.channel].st = "joined"
  /\ TriggerContinue(trigger.topics)

\* await websocket.subscribe(...) raises after a negative acknowledgment
TriggerJoinFailed ==
  /\ trigger.pc = "join"
  /\ channels[trigger.channel].st = "rejected"
  /\ trigger' = [pc |-> AfterFailure(params.connectionMode), topics |-> <<>>,
                  channel |-> 0, isWebSocketConnected |-> TRUE]
  /\ last' = NoCall
  /\ UNCHANGED <<maxReconnectAttempts, reconnectAfterMs, requests,
                 socket, sockets, promise, isConnected,
                 reconnectAttempts, timers, channels, subscriptions, received,
                 emitted, params, microtasks>>

\* the closeFunction that trigger() returned, up to the first await of the
\* disconnect() it calls when a LertyWebSocket was constructed; it can be
\* called again, also while an earlier call is waiting
CloseFunction(leaveRaises) ==
  /\ trigger.pc \in {"active", "closed"}
  /\ trigger' = [trigger EXCEPT !.pc = "closed"]
  /\ IF UsesWebSocket(params)
     THEN DisconnectCall(leaveRaises)
     ELSE /\ leaveRaises = FALSE
          /\ last' = NoCall
          /\ UNCHANGED <<maxReconnectAttempts, reconnectAfterMs, requests,
                         socket, sockets, promise, isConnected,
                         reconnectAttempts, timers, channels, subscriptions,
                         received, emitted, params, microtasks>>

\* a continuation of trigger() is ready to run: it runs before any further
\* transport, backend or timer event is handled
TriggerReady ==
  \/ trigger.pc = "connect" /\ promise.st \in {"resolved", "rejected"}
  \/ trigger.pc = "join" /\ channels[trigger.channel].st \in {"joined", "rejected"}

\* ------------------------------------------------------- inbound messages
\* the handling of one channel message and its outcome
MessageEv(topic, res) == [Ev("message", res) EXCEPT !.msg = [topic |-> topic]]

\* channel.on('message', ...): parseMessage, then the subscription callback;
\* an error raised by either is caught and logged. The only callback the
\* package registers is the one of subscribeToTopics, whose body is empty:
\* nothing is emitted.
ChannelMessage(c, payload) ==
  /\ Idle
  /\ c \in 1..Len(channels)
  /\ channels[c].st = "joined"
  /\ Reachable(c)
  /\ IF ParseRaises(payload)
     THEN /\ last' = MessageEv(channels[c].topic, "raised")
          /\ UNCHANGED <<received, emitted>>
     ELSE /\ received' = Append(received,
               [channel |-> c, topic |-> channels[c].topic,
                message |-> parseMessage(payload)])
          /\ emitted' = SubscriptionCallback(emitted, parseMessage(payload))
          /\ last' = MessageEv(channels[c].topic, "parsed")
  /\ UNCHANGED <<maxReconnectAttempts, reconnectAfterMs, requests,
                 socket, sockets, promise, isConnected,
                 reconnectAttempts, timers, channels, subscriptions, params, microtasks, trigger>>

\* a webhook request answered by LertyTrigger.node.ts, and its outcome
WebhookEv(res, msg, r, response) ==
  [Ev("webhook", res) EXCEPT !.msg = msg, !.headers = r.headers,
                             !.inbound = r.heap[1], !.response = response]

\* webhook() of LertyTrigger.node.ts up to its await: the body, the headers
\* (read and not used) and the parameters are read and processMessage is
\* called. processMessage returns or raises at once, and the rest of webhook()
\* waits in the microtask queue, or it waits for getCredentials.
Webhook(body, headers, extractRaises) ==
  /\ Idle
  /\ extractRaises => (Truthy(Get(body, "fileUrl")) /\ params.fileHandling.downloadFiles)
  /\ LET r == processMessageBegins(body, headers, params.fileHandling, extractRaises)
     IN /\ IF r.pc = "getCredentials"
           THEN requests' = Append(requests, r) /\ UNCHANGED microtasks
           ELSE microtasks' = Append(microtasks, AfterProcessMessage(r))
                /\ UNCHANGED requests
        /\ last' = [Ev("request", r.pc) EXCEPT !.msg = body, !.headers = headers]
  /\ UNCHANGED <<maxReconnectAttempts, reconnectAfterMs, socket, sockets, promise,
                 isConnected, reconnectAttempts, timers, channels, subscriptions,
                 received, emitted, params, trigger>>

\* getCredentials('lertyApi') settles for the i-th waiting request: the call
\* goes on to downloadFileFromUrl and waits again, or the raise is caught and
\* logged and processMessage returns
GetCredentialsSettles(i, raises) ==
  /\ Idle
  /\ i \in 1..Len(requests)
  /\ requests[i].pc = "getCredentials"
  /\ IF raises
     THEN /\ requests' = RemoveAt(requests, i)
          /\ microtasks' = Append(microtasks, AfterProcessMessage(
                              [requests[i] EXCEPT !.pc = "returned", !.fetch = "raised"]))
     ELSE /\ requests' = [requests EXCEPT ![i].pc = "downloadFileFromUrl"]
          /\ UNCHANGED microtasks
  /\ last' = Ev("getCredentials", IF raises THEN "raised" ELSE "")
  /\ UNCHANGED <<maxReconnectAttempts, reconnectAfterMs, socket, sockets, promise,
                 isConnected, reconnectAttempts, timers, channels, subscriptions,
                 received, emitted, params, trigger>>

\* downloadFileFromUrl settles for the i-th waiting request: processMessage
\* runs to its return
DownloadSettles(i, download) ==
  /\ Idle
  /\ i \in 1..Len(requests)
  /\ requests[i].pc = "downloadFileFromUrl"
  /\ requests' = RemoveAt(requests, i)
  /\ microtasks' = Append(microtasks, AfterProcessMessage(
                      processMessageEnds(requests[i], params.fileHandling, download)))
  /\ last' = Ev("downloadFileFromUrl", IF download.st = "raise" THEN "raised" ELSE "")
  /\ UNCHANGED <<maxReconnectAttempts, reconnectAfterMs, socket, sockets, promise,
                 isConnected, reconnectAttempts, timers, channels, subscriptions,
                 received, emitted, params, trigger>>

\* webhook() after await processMessage(...): shouldTrigger, then the
\* response; an error raised by processMessage or by shouldTrigger is caught
\* and logged and the request is answered with 500
WebhookResumes ==
  /\ microtasks # <<>>
  /\ Head(microtasks).op = "webhook"
  /\ LET r == Head(microtasks).request
         processedMessage == r.heap[r.processedMessage]
     IN IF r.pc = "raised"
        THEN /\ emitted' = emitted
             /\ last' = WebhookEv("raised", NoMsg, r, InternalServerError)
        ELSE IF shouldTriggerRaises(processedMessage, params.eventTypes,
                                    params.messageFilters)
        THEN /\ emitted' = emitted
             /\ last' = WebhookEv("raised", processedMessage, r, InternalServerError)
        ELSE LET admitted == shouldTrigger(processedMessage, params.eventTypes,
                                           params.messageFilters) IN
             /\ emitted' = WebhookEmit(emitted, processedMessage, admitted)
             /\ last' = WebhookEv("", processedMessage, r,
                                  WebhookResponse(processedMessage, admitted))
  /\ microtasks' = Tail(microtasks)
  /\ UNCHANGED <<maxReconnectAttempts, reconnectAfterMs, requests, socket, sockets,
                 promise, isConnected, reconnectAttempts, timers, channels,
                 subscriptions, received, params, trigger>>

\* a webhook request handled by the webhook-only LertyTrigger, and its outcome
WebhookOnlyEv(res, msg, headers, response) ==
  [Ev("webhookOnly", res) EXCEPT !.msg = msg, !.headers = headers, !.response = response]

\* webhook() of the webhook-only LertyTrigger: the token of the request is
\* compared with the Secret Token when one is set, a body whose type the Event
\* Types do not list is answered as filtered, any other body is returned to
\* the workflow as workflowData with no webhookResponse. Nothing is caught: on
\* a null body the method raises at body.type or at body.conversation_id.
WebhookOnly(body, headers) ==
  /\ Idle
  /\ LET secretToken == Get(params.additionalFields, "secretToken")
     IN IF Truthy(secretToken) /\ ReceivedToken(headers) # secretToken
        THEN /\ emitted' = emitted
             /\ last' = WebhookOnlyEv("", NoMsg, headers, UnauthorizedResponse)
        ELSE IF "null" \in DOMAIN body
        THEN /\ emitted' = emitted
             /\ last' = WebhookOnlyEv("raised", NoMsg, headers, NoResponse)
        ELSE IF FilteredByType(body, params.eventTypes)
        THEN /\ emitted' = emitted
             /\ last' = WebhookOnlyEv("", body, headers, FilteredResponse)
        ELSE /\ emitted' = Append(emitted, OutputData(body, params.agentId))
             /\ last' = WebhookOnlyEv("workflowData", OutputData(body, params.agentId),
                                      headers, NoResponse)
  /\ UNCHANGED <<maxReconnectAttempts, reconnectAfterMs, requests, socket, sockets, promise,
                 isConnected, reconnectAttempts, timers, channels, subscriptions,
                 received, params, microtasks, trigger>>

\* -------------------------------------------------------- specifications
SocketsCreated == Cardinality({s \in SocketIds : sockets[s] # "none"})

ObjectsCreated == SocketsCreated + Len(channels)

\* connect() creates a Socket unless the connection is live
CreatesSocket == ~(socket # 0 /\ isConnected)

\* subscribe(topic, ...) creates a Channel when it passes its two guards
CreatesChannel(topic) == SubscribeOutcome(topic) = "joining"

\* Spec: the connection with its subscription registry and inbound messages
Init ==
  /\ InitConnection
  /\ maxReconnectAttempts = 1
  /\ reconnectAfterMs = ReconnectAfterMs
  /\ params = DefaultParams
  /\ trigger = NoTrigger

Next ==
  \/ socket = 0 /\ ObjectsCreated < MaxObjects /\ Connect
  \/ \E i \in 1..MaxObjects :
       (CreatesSocket => ObjectsCreated < MaxObjects) /\ ReconnectTimer(i)
  \/ \E s \in SocketIds : OnOpen(s)
  \/ \E s \in SocketIds : OnError(s)
  \/ \E s \in SocketIds : OnClose(s)
  \/ \E s \in SocketIds : OnCloseAfterDisconnect(s)
  \/ \E t \in Topics :
       (CreatesChannel(t) => ObjectsCreated < MaxObjects) /\ Subscribe(t)
  \/ \E c \in 1..MaxObjects : JoinOk(c)
  \/ \E c \in 1..MaxObjects : JoinError(c, Unauthorized)
  \/ \E t \in Topics, r \in BOOLEAN : Len(microtasks) < MaxPending /\ Unsubscribe(t, r)
  \/ \E r \in BOOLEAN : Len(microtasks) < MaxPending /\ Disconnect(r)
  \/ MicrotaskRuns

Spec == Init /\ [][Next]_vars

\* SpecRegistry: the calls on the subscription registry, over transports that
\* open and report errors but do not close on their own
NextRegistry ==
  \/ socket = 0 /\ ObjectsCreated < MaxRegistryObjects /\ Connect
  \/ \E s \in SocketIds : OnOpen(s)
  \/ \E s \in SocketIds : OnError(s)
  \/ \E t \in Topics :
       (CreatesChannel(t) => ObjectsCreated < MaxRegistryObjects) /\ Subscribe(t)
  \/ \E c \in 1..MaxRegistryObjects : JoinOk(c)
  \/ \E c \in 1..MaxRegistryObjects : JoinError(c, Unauthorized)
  \/ \E t \in Topics, r \in BOOLEAN : Len(microtasks) < MaxPending /\ Unsubscribe(t, r)
  \/ \E r \in BOOLEAN : Len(microtasks) < MaxPending /\ Disconnect(r)
  \/ MicrotaskRuns

SpecRegistry == Init /\ [][NextRegistry]_vars

\* SpecReconnect: the connection life cycle alone, over more Socket objects
InitReconnect ==
  /\ InitConnection
  /\ params \in ReconnectParams
  /\ maxReconnectAttempts = WebSocketConfig(params).maxReconnectAttempts
  /\ reconnectAfterMs = WebSocketConfig(params).reconnectAfterMs
  /\ trigger = NoTrigger

NextReconnect ==
  \/ socket = 0 /\ SocketsCreated < MaxSockets /\ Connect
  \/ \E i \in 1..MaxSockets :
       (CreatesSocket => SocketsCreated < MaxSockets) /\ ReconnectTimer(i)
  \/ \E s \in SocketIds : OnOpen(s)
  \/ \E s \in SocketIds : OnError(s)
  \/ \E s \in SocketIds : OnClose(s)
  \/ \E s \in SocketIds : OnCloseAfterDisconnect(s)
  \/ Disconnect(FALSE)

SpecReconnect == InitReconnect /\ [][NextReconnect]_vars

\* SpecDelivery: an activation without failures, and the messages it receives
InitDelivery ==
  /\ InitConnection
  /\ maxReconnectAttempts = 1
  /\ reconnectAfterMs = ReconnectAfterMs
  /\ params \in ChannelParams
  /\ trigger = NoTrigger

NextDelivery ==
  \/ socket = 0 /\ ObjectsCreated < MaxObjects /\ Connect
  \/ \E s \in SocketIds : OnOpen(s)
  \/ \E t \in Topics :
       (CreatesChannel(t) => ObjectsCreated < MaxObjects) /\ Subscribe(t)
  \/ \E c \in 1..MaxObjects : JoinOk(c)
  \/ \E c \in 1..MaxObjects, p \in ChannelPayloads :
       Len(received) < MaxMessages /\ ChannelMessage(c, p)

SpecDelivery == InitDelivery /\ [][NextDelivery]_vars

\* SpecNormalize: one connection, its subscriptions to one topic and the
\* payloads that arrive on them
NextNormalize ==
  \/ socket = 0 /\ ObjectsCreated < MaxObjects /\ Connect
  \/ \E s \in SocketIds : OnOpen(s)
  \/ (CreatesChannel("t1") => ObjectsCreated < MaxObjects) /\ Subscribe("t1")
  \/ \E c \in 1..MaxObjects : JoinOk(c)
  \/ \E c \in 1..MaxObjects, p \in NormalizePayloads :
       Len(received) < MaxMessages /\ ChannelMessage(c, p)

SpecNormalize == Init /\ [][NextNormalize]_vars

\* SpecWebhook: the webhook path over the filter policies and request bodies,
\* each request handled by webhook() of LertyTrigger.node.ts or by webhook() of
\* the webhook-only LertyTrigger
InitWebhook ==
  /\ InitConnection
  /\ maxReconnectAttempts = 0
  /\ reconnectAfterMs = ReconnectAfterMs
  /\ params \in WebhookParams
  /\ trigger = NoTrigger

NextWebhook ==
  \/ \E b \in WebhookBodies, h \in RequestHeaders, x \in BOOLEAN :
       Len(requests) < MaxInFlightWebhook /\ Webhook(b, h, x)
  \/ \E i \in 1..MaxInFlightWebhook, x \in BOOLEAN : GetCredentialsSettles(i, x)
  \/ \E i \in 1..MaxInFlightWebhook, d \in DownloadOutcomes : DownloadSettles(i, d)
  \/ WebhookResumes
  \/ \E b \in WebhookBodies, h \in RequestHeaders :
       Len(emitted) < MaxWorkflowData /\ WebhookOnly(b, h)

SpecWebhook == InitWebhook /\ [][NextWebhook]_vars

\* file handling options: downloads on or off, no ceiling set or a ceiling of
\* 1 MB, no allow-list set or one of three allow-lists
FileParams ==
  [eventTypes : {<<>>}, messageFilters : {NoFilters},
   fileHandling : [downloadFiles : BOOLEAN, maxFileSize : {0, 1},
                   allowedFileTypes : {<<>>, <<"image/*">>, <<"app/*", "text/*">>,
                                       <<"application/pdf">>}]]

\* request bodies without a file and with a file of one of four types
FileBodies ==
  {[type |-> "user_message", content |-> "bye"]} \cup
  [type : {"user_message"}, content : {"bye"},
   fileUrl : {"http://files/a.png", "http://files/a.pdf", "http://files/a.txt",
              "http://files/a.bin"}]

\* downloads that raise, and downloads of a length at and around the two ceilings
FileDownloads ==
  {DownloadRaises} \cup
  {Downloaded(n) : n \in {0, MegaByte, MegaByte + 1,
                          DefaultMaxFileSize * MegaByte, DefaultMaxFileSize * MegaByte + 1}}

\* SpecFiles: the webhook path over the file handling options, files and downloads
InitFiles ==
  /\ InitConnection
  /\ maxReconnectAttempts = 0
  /\ reconnectAfterMs = ReconnectAfterMs
  /\ params \in FileParams
  /\ trigger = NoTrigger

NextFiles ==
  \/ \E b \in FileBodies, x \in BOOLEAN :
       Len(requests) < MaxInFlight /\ Webhook(b, [host |-> "n8n"], x)
  \/ \E i \in 1..MaxInFlight, x \in BOOLEAN : GetCredentialsSettles(i, x)
  \/ \E i \in 1..MaxInFlight, d \in FileDownloads : DownloadSettles(i, d)
  \/ WebhookResumes

SpecFiles == InitFiles /\ [][NextFiles]_vars

\* SpecFilter: the filter over every filter policy and message of the inputs
InitFilter ==
  /\ InitConnection
  /\ maxReconnectAttempts = 0
  /\ reconnectAfterMs = ReconnectAfterMs
  /\ params \in FilterParams
  /\ trigger = NoTrigger

NextFilter ==
  \/ \E m \in FilterMessages : Webhook(m, [host |-> "n8n"], FALSE)
  \/ WebhookResumes

SpecFilter == InitFilter /\ [][NextFilter]_vars

\* the next step of subscribeToTopics over these topics creates a Channel
TriggerCreatesChannel(topics) == topics # <<>> /\ CreatesChannel(Head(topics))

\* SpecTrigger: a trigger node from its activation to its closeFunction
InitTrigger ==
  /\ InitConnection
  /\ params \in TriggerParams
  /\ maxReconnectAttempts = WebSocketConfig(params).maxReconnectAttempts
  /\ reconnectAfterMs = WebSocketConfig(params).reconnectAfterMs
  /\ trigger = TriggerStarted

\* the steps of trigger() itself: its start and the continuations of its awaits
TriggerRuns ==
  \/ ObjectsCreated < MaxObjects /\ TriggerStart
  \/ (TriggerCreatesChannel(ResolveTopics(params)) => ObjectsCreated < MaxObjects)
       /\ TriggerConnected
  \/ TriggerConnectFailed
  \/ (TriggerCreatesChannel(trigger.topics) => ObjectsCreated < MaxObjects)
       /\ TriggerJoined
  \/ TriggerJoinFailed

\* a pending reconnect timer fires
TimerFires ==
  \E i \in 1..MaxObjects :
    ~TriggerReady /\ (CreatesSocket => ObjectsCreated < MaxObjects) /\ ReconnectTimer(i)

NextTrigger ==
  \/ TriggerRuns
  \/ \E r \in BOOLEAN : Len(microtasks) < MaxPending /\ CloseFunction(r)
  \/ MicrotaskRuns
  \/ TimerFires
  \/ \E s \in SocketIds : ~TriggerReady /\ OnOpen(s)
  \/ \E s \in SocketIds : ~TriggerReady /\ OnError(s)
  \/ \E s \in SocketIds : ~TriggerReady /\ OnClose(s)
  \/ \E s \in SocketIds : ~TriggerReady /\ OnCloseAfterDisconnect(s)
  \/ \E c \in 1..MaxObjects : ~TriggerReady /\ JoinOk(c)
  \/ \E c \in 1..MaxObjects, e \in JoinErrors : ~TriggerReady /\ JoinError(c, e)
  \/ \E c \in 1..MaxObjects, p \in ChannelPayloads :
       ~TriggerReady /\ Len(received) < MaxMessages /\ ChannelMessage(c, p)

SpecTrigger == InitTrigger /\ [][NextTrigger]_vars

\* SpecTriggerFair: the event loop runs every continuation of trigger() that
\* is ready, every microtask that waits and fires every timer that is set;
\* the transport and the backend owe no event
SpecTriggerFair ==
  /\ InitTrigger
  /\ [][NextTrigger]_vars
  /\ WF_vars(TriggerRuns)
  /\ WF_vars(MicrotaskRuns)
  /\ WF_vars(TimerFires)

\* ================================================================ claims
\* an unexpected close of socket s happens in this step
UnexpectedClose(s) == sockets[s] \in {"connecting", "open"} /\ sockets'[s] = "closed"

\* C1 (SpecReconnect): every unexpected close raises the reconnect attempt
\* count by exactly 1 and schedules exactly one reconnect while the count is
\* below maxReconnectAttempts; once the count would exceed maxReconnectAttempts
\* the close leaves the count alone, schedules nothing and the connection is
\* not connected. With maxReconnectAttempts = 3 the 4th failure in a row gives up.
C1_ReconnectCount ==
  [][\A s \in SocketIds : UnexpectedClose(s) =>
        /\ ~isConnected'
        /\ IF reconnectAttempts + 1 > maxReconnectAttempts
           THEN reconnectAttempts' = reconnectAttempts /\ timers' = timers
           ELSE /\ reconnectAttempts' = reconnectAttempts + 1
                /\ Len(timers') = Len(timers) + 1]_vars

\* C1 witness: with maxReconnectAttempts = 3, four sockets have failed, three
\* reconnects were made and the fourth failure scheduled nothing
C1_Witness ==
  /\ maxReconnectAttempts = 3
  /\ Cardinality({s \in SocketIds : sockets[s] = "closed"}) = 4
  /\ reconnectAttempts = 3
  /\ timers = <<>>
  /\ ~isConnected

\* C2 (Spec): when the transport of a connected connection closes on its own,
\* the registry is cleared: the connection is then not connected,
\* getSubscriptions() is empty and isTopicSubscribed(t) is false for every topic
C2_RegistryClearedOnUnexpectedClose ==
  [][(socket # 0 /\ isConnected /\ UnexpectedClose(socket)) =>
        /\ ~getConnectionStatus'
        /\ getSubscriptions' = <<>>
        /\ \A t \in Topics : ~isTopicSubscribed(t)']_vars

\* C3 (Spec): subscribe(topic, cb) on a topic that is already in the registry
\* always fails with the duplicate-subscription error and leaves the registry
\* and the channels as they were
C3_DuplicateSubscribeFails ==
  [][\A t \in Topics : (isTopicSubscribed(t) /\ Subscribe(t)) =>
        /\ last'.res = "duplicate"
        /\ UNCHANGED <<subscriptions, channels>>]_vars

\* the channels of topic t that are joined on the open socket s
ActiveChannels(s, t) ==
  {c \in 1..Len(channels) :
     channels[c].topic = t /\ channels[c].sock = s /\ channels[c].st = "joined"
     /\ sockets[s] = "open"}

\* C4 (Spec): a topic has at most one joined channel, with one callback, per
\* connection in every reachable state
C4_AtMostOneActiveSubscription ==
  \A s \in SocketIds, t \in Topics : Cardinality(ActiveChannels(s, t)) <= 1

\* the filter policy admits the message m received on the channel path
Admitted(m) ==
  \E d \in DownloadOutcomes :
    shouldTrigger(processMessage(m, params.fileHandling, d),
                  params.eventTypes, params.messageFilters)

\* the messages of the received log that the filter policy admits, in order
RECURSIVE AdmittedOf(_)
AdmittedOf(log) ==
  IF log = <<>> THEN <<>>
  ELSE (IF Admitted(Head(log).message) THEN <<Head(log).message>> ELSE <<>>)
       \o AdmittedOf(Tail(log))

\* the number of emissions that carry message m
Emissions(m) ==
  Cardinality({i \in 1..Len(emitted) :
                 /\ Get(emitted[i], "id") = Get(m, "id")
                 /\ Get(emitted[i], "content") = Get(m, "content")})

\* C5 (SpecDelivery): every message that arrived on a subscribed topic and is
\* admitted by the filter policy has been emitted, one emit call per message,
\* exactly once
C5_AdmittedMessageEmittedOnce ==
  /\ Len(emitted) = Len(AdmittedOf(received))
  /\ \A i \in 1..Len(received) :
       Admitted(received[i].message) => Emissions(received[i].message) >= 1

\* C6 (SpecDelivery): two admitted messages that arrived on one topic are
\* emitted, and in the order of their arrival
C6_EmittedInArrivalOrder ==
  \A i, j \in 1..Len(received) :
    (i < j /\ received[i].topic = received[j].topic
     /\ Admitted(received[i].message) /\ Admitted(received[j].message)) =>
       \E a, b \in 1..Len(emitted) :
         /\ a < b
         /\ Get(emitted[a], "content") = Get(received[i].message, "content")
         /\ Get(emitted[b], "content") = Get(received[j].message, "content")

\* the filter policy admits the message of the webhook request just answered:
\* shouldTrigger returned, and returned true
WebhookAdmitted ==
  /\ last.res # "raised"
  /\ shouldTrigger(last.msg, params.eventTypes, params.messageFilters)

\* the filter policy drops the message of the webhook request just answered:
\* shouldTrigger returned, and returned false
WebhookDropped ==
  /\ last.res # "raised"
  /\ ~shouldTrigger(last.msg, params.eventTypes, params.messageFilters)

\* C7 (SpecWebhook): a webhook request whose message the filter policy drops
\* is answered with 200 {received: true, filtered: true} and emits nothing
C7_FilteredWebhookResponse ==
  [][(last'.op = "webhook" /\ WebhookDropped') =>
        /\ last'.response = [status |-> 200, body |-> [received |-> TRUE, filtered |-> TRUE]]
        /\ emitted' = emitted]_vars

\* C8 (SpecWebhook): a webhook request whose message the filter policy admits
\* is answered with 200 {received: true} and emits that message, once
C8_AdmittedWebhookEmission ==
  [][(last'.op = "webhook" /\ WebhookAdmitted') =>
        /\ last'.response = [status |-> 200, body |-> [received |-> TRUE]]
        /\ Len(emitted') = Len(emitted) + 1
        /\ emitted'[Len(emitted')] = last'.msg]_vars

\* C9 (SpecRegistry): when disconnect() returns on a connection that holds a
\* socket, with any number of subscribed topics, every subscription has been
\* left and removed (each entry that a step of disconnect() removes belongs to
\* a channel that was left, and the registry is empty at the return), the
\* transport of the socket is closed, the socket is dropped and
\* getConnectionStatus() is false
C9_DisconnectTearsDown ==
  [][last'.op = "disconnect" =>
        /\ \A i \in 1..Len(subscriptions) :
             ~SubsHas(subscriptions', subscriptions[i].topic) =>
                channels'[subscriptions[i].channel].st = "left"
        /\ last'.res = "done" =>
             /\ getSubscriptions' = <<>>
             /\ sockets'[socket] \notin {"connecting", "open"}
             /\ socket' = 0
             /\ ~getConnectionStatus']_vars

\* C9 witness: disconnect() has returned and left two subscribed topics
C9_Witness ==
  /\ last.op = "disconnect" /\ last.res = "done"
  /\ Cardinality({c \in 1..Len(channels) : channels[c].st = "left"}) = 2
  /\ subscriptions = <<>>
  /\ microtasks = <<>>
  /\ \E s \in SocketIds : sockets[s] = "closing"

\* a disconnect() call is waiting at one of its awaits
DisconnectRunning ==
  \E i \in 1..Len(microtasks) : microtasks[i].by = "disconnect"

\* C10 (Spec): a disconnect() call made on a connection without a socket, or
\* while an earlier disconnect() call has not returned yet, calls no leave(),
\* closes no transport and changes neither the connection state, the registry
\* nor the reconnect counter and timers, and no disconnect() call raises for
\* want of a socket
C10_DisconnectIdempotent ==
  [][/\ last'.op = "disconnect" => last'.res # "TypeError"
     /\ ((socket = 0 \/ DisconnectRunning) /\ (\E r \in BOOLEAN : Disconnect(r))) =>
          /\ last'.res = "noop"
          /\ UNCHANGED <<socket, sockets, isConnected, subscriptions, channels,
                         reconnectAttempts, timers, promise>>]_vars

\* C11 (Spec): every disconnect() call completes without raising and leaves
\* the connection torn down (no socket, transport closed, not connected, empty
\* registry), also when the leave of one of its topics raises
C11_DisconnectAlwaysCompletes ==
  [][(last'.op = "disconnect" /\ last'.res # "pending") =>
        /\ last'.res \in {"done", "noop"}
        /\ socket' = 0
        /\ \A s \in SocketIds : s = socket => sockets'[s] \notin {"connecting", "open"}
        /\ ~getConnectionStatus'
        /\ getSubscriptions' = <<>>]_vars

\* the 'Reconnect on Error' option of the trigger
ReconnectEnabled == GetOr(params.connectionOptions, "reconnectOnError", TRUE)

\* the current transport is open and the connection is marked connected
Connected == socket # 0 /\ sockets[socket] = "open" /\ isConnected

\* C12 (SpecReconnect): an unexpected close while connected starts reconnect
\* attempt 1 (one reconnect scheduled) only if 'Reconnect on Error' is on; when
\* it is off the connection is not connected and no reconnect is scheduled
C12_ReconnectOnlyIfEnabled ==
  [][(Connected /\ UnexpectedClose(socket)) =>
        /\ ~getConnectionStatus'
        /\ IF ReconnectEnabled
           THEN maxReconnectAttempts >= 1 =>
                  (reconnectAttempts' = 1 /\ Len(timers') = Len(timers) + 1)
           ELSE reconnectAttempts' = reconnectAttempts /\ timers' = timers]_vars

\* the handshake of the connect() call that the owner is waiting for fails in
\* this step: its socket reports an error, or closes, before it opened
HandshakeFails(s) ==
  /\ promise.sock = s /\ promise.st = "pending"
  /\ sockets[s] = "connecting"
  /\ (OnError(s) \/ OnClose(s))

\* C13 (SpecReconnect): when the handshake of a connect() call fails, the call
\* fails with a connection error and, with reconnection enabled and the counter
\* at 0, the counter becomes 1 and one reconnect is scheduled
C13_HandshakeFailureReconnects ==
  [][\A s \in SocketIds : HandshakeFails(s) =>
        /\ promise'.st = "rejected"
        /\ (ReconnectEnabled /\ maxReconnectAttempts >= 1 /\ reconnectAttempts = 0) =>
              (reconnectAttempts' = 1 /\ Len(timers') = Len(timers) + 1)]_vars

\* the reconnect attempts are used up: the transport of the connection has
\* closed on its own and no reconnect is pending or will be scheduled
Exhausted ==
  /\ socket # 0 /\ sockets[socket] = "closed"
  /\ timers = <<>>
  /\ reconnectAttempts >= maxReconnectAttempts

\* a failure has been reported to the owner of the connection: its connect()
\* call was rejected, or trigger() raised
OwnerNotified == promise.st = "rejected" \/ trigger.pc = "raised"

\* C14 (SpecReconnect): when the reconnect attempts are used up, the owner of
\* the connection has been told that the connection is down
C14_ExhaustionNotified == Exhausted => OwnerNotified

\* C15 (SpecTrigger): when the initial connect of an activation fails, in
\* 'websocket' and in 'auto' mode, trigger() raises a NodeOperationError
C15_FailedConnectRaises ==
  [][(UsesWebSocket(params) /\ TriggerConnectFailed) => trigger'.pc = "raised"]_vars

\* C16 (Spec): subscribe(topic, cb) on a connection that is not connected
\* (no socket, or the transport of its socket is not open) fails with the
\* not-connected error, creates no channel and leaves the registry unchanged
C16_SubscribeNeedsConnected ==
  [][\A t \in Topics : (~Connected /\ Subscribe(t)) =>
        /\ last'.res = "notconnected"
        /\ UNCHANGED <<channels, subscriptions>>]_vars

\* the reason that the backend gave in the payload of a negative acknowledgment
BackendReason(error) == IF error.kind = "string" THEN error.value ELSE error.reason

\* C17 (SpecTrigger): a topic enters the registry only in the step in which
\* the backend acknowledges its join, which is the step that resolves
\* subscribe(); on a negative acknowledgment subscribe() fails with the reason
\* that the backend supplied and the topic is not in the registry afterwards
C17_SubscribeSettlesOnAck ==
  [][/\ \A i \in 1..Len(subscriptions') :
          (\A j \in 1..Len(subscriptions) : subscriptions[j] # subscriptions'[i]) =>
             /\ channels[subscriptions'[i].channel].st = "joining"
             /\ JoinOk(subscriptions'[i].channel)
     /\ \A c \in 1..Len(channels) :
          (channels[c].st # "joined" /\ channels'[c].st = "joined") =>
             isTopicSubscribed(channels[c].topic)'
     /\ \A c \in 1..Len(channels), e \in JoinErrors :
          JoinError(c, e) =>
             /\ channels'[c].error.detail = BackendReason(e)
             /\ ~isTopicSubscribed(channels[c].topic)']_vars

\* C18 (SpecTriggerFair): every connect() call and every subscribe() call
\* that is pending is settled later on, by success, by failure or by a timeout
C18_CallsSettle ==
  /\ (promise.st = "pending") ~> (promise.st # "pending")
  /\ \A c \in 1..MaxObjects :
       (c <= Len(channels) /\ channels[c].st = "joining")
         ~> (c <= Len(channels) /\ channels[c].st # "joining")

\* C19 (SpecRegistry): unsubscribe(topic) for a topic that is not in the registry
\* raises nothing, leaves no channel and changes neither the registry, the
\* channels, the connection state nor the reconnect counter and timers
C19_UnsubscribeUnknownIsNoop ==
  [][\A t \in Topics :
       ((\A i \in 1..Len(subscriptions) : subscriptions[i].topic # t)
        /\ (\E r \in BOOLEAN : Unsubscribe(t, r))) =>
          /\ last'.res = "noop"
          /\ UNCHANGED <<socket, sockets, isConnected, subscriptions, channels,
                         reconnectAttempts, timers, promise, microtasks>>]_vars

\* C19 witness: on a connected connection with one subscribed topic,
\* unsubscribe of the other topic was called and did nothing
C19_Witness ==
  /\ last.op = "unsubscribe" /\ last.res = "noop"
  /\ Connected
  /\ Len(subscriptions) = 1
  /\ channels[subscriptions[1].channel].st = "joined"

\* the state of the connection: Connected while it holds a socket and is
\* marked connected, Connecting while the socket it holds is in its handshake,
\* Reconnecting while a reconnect is scheduled, Disconnected otherwise
ConnectionState ==
  IF socket # 0 /\ isConnected THEN "Connected"
  ELSE IF socket # 0 /\ sockets[socket] = "connecting" THEN "Connecting"
  ELSE IF timers # <<>> THEN "Reconnecting"
  ELSE "Disconnected"

\* the edges along which the state of the connection may change
StateEdges ==
  { <<"Disconnected", "Connecting">>, <<"Connecting", "Connected">>,
    <<"Connected", "Reconnecting">>, <<"Reconnecting", "Connecting">>,
    <<"Connected", "Disconnected">> }

\* C20 (SpecReconnect): over every sequence of connect, open, error, close,
\* reconnect-timer and disconnect events the state of the connection changes
\* only along Disconnected->Connecting, Connecting->Connected,
\* Connected->Reconnecting, Reconnecting->Connecting and
\* Connected->Disconnected, and the reconnect attempt number never decreases
\* except when a connection attempt succeeds
C20_StateEdges ==
  [][/\ (ConnectionState' # ConnectionState =>
           <<ConnectionState, ConnectionState'>> \in StateEdges)
     /\ (reconnectAttempts' < reconnectAttempts => ConnectionState' = "Connected")]_vars

\* a message filter is set: its value is not the empty default
FilterSet(k) == Truthy(Get(params.messageFilters, k))

\* the needle occurs in the text at some position, comparing letters without case
ContainsIgnoringCase(text, needle) ==
  \E i \in 0..(Len(text) - Len(needle)) :
     \A j \in 1..Len(needle) : LowerChar(text[i + j]) = LowerChar(needle[j])

\* the conjunction of the checks of the filter policy on a message
AdmitRule(m) ==
  /\ Len(params.eventTypes) = 0
       \/ \E i \in 1..Len(params.eventTypes) : params.eventTypes[i] = Get(m, "type")
  /\ \A k \in {"userId", "conversationId", "agentId"} :
       FilterSet(k) => Get(m, k) = Get(params.messageFilters, k)
  /\ FilterSet("contentContains") =>
       /\ Truthy(Get(m, "content"))
       /\ ContainsIgnoringCase(Chars(Get(m, "content")),
                               Chars(Get(params.messageFilters, "contentContains")))

\* C21 (SpecFilter): for every message and filter policy, shouldTrigger admits
\* the message exactly when all of these hold: the allow-list of event types is
\* empty or contains the type of the message; each of the userId,
\* conversationId and agentId filters that is set equals the field of the
\* message; the contentContains filter, when set, occurs in the content of the
\* message without regard to case
C21_FilterIsConjunction ==
  (last.op = "webhook" /\ last.msg # NoMsg) => (WebhookAdmitted <=> AdmitRule(last.msg))

\* C21 witness: a message is admitted under an allow-list of two types, a
\* user filter, a conversation filter and a substring filter in another case
C21_Witness ==
  /\ last.op = "webhook"
  /\ Len(params.eventTypes) = 2
  /\ FilterSet("userId") /\ FilterSet("conversationId")
  /\ Get(params.messageFilters, "contentContains") = "HELLO"
  /\ last.msg.content = "Hello World"
  /\ WebhookAdmitted

\* no message filter is set
NoFilterSet ==
  \A k \in {"userId", "conversationId", "agentId", "contentContains"} : ~FilterSet(k)

\* C22 (SpecFilter): under an empty allow-list of event types and no message
\* filter, every message is admitted, a message without a type included
C22_EmptyPolicyAdmitsAll ==
  (last.op = "webhook" /\ Len(params.eventTypes) = 0 /\ NoFilterSet) => WebhookAdmitted

\* C22 witness: a message without a type, a user, an agent and a content went
\* through the filter under the empty policy
C22_Witness ==
  /\ last.op = "webhook"
  /\ Len(params.eventTypes) = 0 /\ NoFilterSet
  /\ last.msg.type = Undefined /\ last.msg.content = Undefined
  /\ last.msg.userId = Undefined /\ last.msg.agentId = Undefined

\* the payload carries all three names of the conversation
AllNames(p) == {"conversation_id", "conversationId", "thread_id"} \subseteq DOMAIN p

\* the message that the latest channel step handed to the subscription callback
Parsed == received[Len(received)].message

\* C23 (SpecNormalize): a payload in which conversation_id, conversationId and
\* thread_id are all present, with different values, is normalized to a message
\* whose conversationId is the value of conversation_id
C23_SnakeCaseWins ==
  [][\A c \in 1..MaxObjects, p \in NormalizePayloads :
       (ChannelMessage(c, p) /\ AllNames(p)) =>
          Parsed'.conversationId = p.conversation_id]_vars

\* C23 witness: the payload with the three names was normalized to a message
\* with the conversation c1
C23_Witness ==
  /\ last.op = "message" /\ last.res = "parsed"
  /\ Parsed.id = "m1" /\ Parsed.conversationId = "c1"

\* the first name of the conversation that the payload carries, in the order
\* conversation_id, conversationId, thread_id
ConversationOf(p) ==
  OrElse(Get(p, "conversation_id"),
         OrElse(Get(p, "conversationId"), OrElse(Get(p, "thread_id"), "")))

\* C24 (SpecNormalize): the normalizer takes the conversation from the first
\* name present among conversation_id, conversationId and thread_id: a payload
\* that carries only conversationId, or only thread_id, is normalized to a
\* message with that value as its conversationId
C24_EitherNamingConvention ==
  [][\A c \in 1..MaxObjects, p \in NormalizePayloads :
       (ChannelMessage(c, p) /\ ~ParseRaises(p)) =>
          Parsed'.conversationId = ConversationOf(p)]_vars

\* C25 (SpecFilter): every message that reaches the filter carries a non-empty
\* type and a non-empty timestamp
C25_TypeAndTimestampPresent ==
  last.op = "webhook" =>
     Truthy(Get(last.msg, "type")) /\ Truthy(Get(last.msg, "timestamp"))

\* C26 (SpecNormalize): every payload that arrives on a joined channel, null
\* and a string included, is normalized and handed to the subscription
\* callback: none is dropped
C26_NormalizationNeverFails ==
  [][\A c \in 1..MaxObjects, p \in NormalizePayloads :
       ChannelMessage(c, p) =>
          /\ last'.res = "parsed"
          /\ Len(received') = Len(received) + 1]_vars

\* C27 (SpecNormalize): after a message whose handling raised an error, the
\* next message on the same topic is normalized and, when the filter policy
\* admits it, emitted
C27_ErrorDoesNotEndSubscription ==
  [][(/\ last.op = "message" /\ last.res = "raised"
      /\ last'.op = "message" /\ last'.msg.topic = last.msg.topic
      /\ Len(received') = Len(received) + 1
      /\ Admitted(Parsed')) =>
         emitted' = Append(emitted, Parsed')]_vars

\* a secret is configured and the request carries no x-lerty-signature or
\* authorization header with that value
SecretMismatch ==
  /\ Truthy(params.additionalFields.secretToken)
  /\ ReceivedToken(last.headers) # params.additionalFields.secretToken

\* C28 (SpecWebhook): a webhook request whose secret header does not match the
\* configured secret is answered with 401, emits nothing and leaves the
\* connection and its subscriptions as they were; every other request is
\* answered with 200 or 500
C28_SecretMismatchIs401 ==
  [][last'.op = "webhook" =>
        IF SecretMismatch'
        THEN /\ last'.response.status = 401
             /\ UNCHANGED <<emitted, socket, sockets, isConnected, channels, subscriptions>>
        ELSE last'.response.status \in {200, 500}]_vars

\* webhook() resumes for a request in which extractFileInfo, getCredentials
\* or downloadFileFromUrl raised
FetchFailed ==
  /\ WebhookResumes
  /\ Head(microtasks).request.fetch = "raised"

\* C29 (SpecWebhook): when fetching the attachment of a message fails,
\* processMessage returns the message with its original fields and without a
\* binary attachment, the message goes to the filter as it is, and a message
\* that the filter admits is dispatched: it is emitted, once
C29_FetchFailureDoesNotBlock ==
  [][FetchFailed =>
       LET b == Head(microtasks).request.body
       IN /\ last'.msg = b
          /\ (~shouldTriggerRaises(b, params.eventTypes, params.messageFilters)
              /\ shouldTrigger(b, params.eventTypes, params.messageFilters)) =>
                emitted' = Append(emitted, b)]_vars

\* a subscription configuration that names at least one topic
ValidConfiguration(p) ==
  CASE p.subscriptionMode = "single" -> p.topicPattern # ""
    [] p.subscriptionMode = "multiple" ->
         "topicValues" \in DOMAIN p.topics /\ Len(p.topics.topicValues) > 0
    [] p.subscriptionMode = "agent" -> Len(p.agents) > 0
    [] OTHER -> FALSE

\* C30 (SpecTrigger): under a valid subscription configuration the resolved
\* topics are not empty and no subscribe call that the activation makes for
\* them fails as a duplicate subscription, a topic listed twice in the
\* 'multiple' mode being resolved once
C30_ResolvedTopicsDuplicateFree ==
  (ValidConfiguration(params) /\ last.op = "subscribe") =>
     /\ ResolveTopics(params) # <<>>
     /\ last.res # "duplicate"

\* C31 (SpecTrigger): in 'websocket' mode an activation whose subscription
\* configuration lacks its required field (an empty pattern, an empty or
\* absent topic list, no agents) fails and does not become active
C31_InvalidConfigurationFails ==
  (~ValidConfiguration(params) /\ params.connectionMode = "websocket") =>
     trigger.pc # "active"

\* the transport of socket s opens in this step
Opens(s) == sockets[s] # "open" /\ sockets'[s] = "open"

\* C32 (SpecReconnect): in the step in which a transport opens, the connection
\* becomes connected and the reconnect counter becomes 0; the counter is 0
\* whenever the connection is connected, so the next close that starts a
\* reconnect makes it attempt 1 with the base delay
C32_OpenResetsCounter ==
  [][/\ \A s \in SocketIds :
          Opens(s) => (getConnectionStatus' /\ reconnectAttempts' = 0)
     /\ getConnectionStatus' => reconnectAttempts' = 0
     /\ (getConnectionStatus /\ reconnectAttempts' # reconnectAttempts) =>
          /\ reconnectAttempts' = 1
          /\ timers' = SetTimeout(timers, reconnectAfterMs)]_vars

\* C32 witness: the transport closed, the reconnect opened a second one, and
\* its close made the counter 1 again with the base delay
C32_Witness ==
  /\ Cardinality({s \in SocketIds : sockets[s] = "closed"}) = 2
  /\ Cardinality({s \in SocketIds : sockets[s] = "none"}) = MaxSockets - 2
  /\ maxReconnectAttempts >= 2
  /\ reconnectAttempts = 1
  /\ timers = <<reconnectAfterMs>>

\* the number of pending timers with this delay
Pending(ts, delay) == Cardinality({i \in 1..Len(ts) : ts[i] = delay})

\* C33 (SpecReconnect): the step that starts reconnect attempt n, for n from 1
\* to maxReconnectAttempts, sets exactly one timer, with the delay
\* reconnectAfterMs * n
C33_LinearBackoff ==
  [][reconnectAttempts' > reconnectAttempts =>
        /\ reconnectAttempts' = reconnectAttempts + 1
        /\ reconnectAttempts' \in 1..maxReconnectAttempts
        /\ Len(timers') = Len(timers) + 1
        /\ Pending(timers', reconnectAfterMs * reconnectAttempts')
             = Pending(timers, reconnectAfterMs * reconnectAttempts') + 1]_vars

\* C33 witness: with a Reconnect Delay that was set, the third attempt in a
\* row is pending with three times that delay
C33_Witness ==
  /\ reconnectAfterMs \in ReconnectDelays
  /\ reconnectAttempts = 3
  /\ Pending(timers, reconnectAfterMs * 3) = 1

\* the type has the form category/<subtype> for the category of the entry
InCategory(type, entry) ==
  startsWith(MimeChars(type), BeforeSlash(MimeChars(entry)) \o <<"/">>)

\* the type matches an entry of the allow-list: exactly, or by its category
\* when the entry is category/*
MimeMatches(type, allowedTypes) ==
  \E i \in 1..Len(allowedTypes) :
     \/ type = allowedTypes[i]
     \/ /\ endsWith(MimeChars(allowedTypes[i]), <<"/", "*">>)
        /\ InCategory(type, allowedTypes[i])

\* C34 (SpecFiles): a message leaves processMessage with a binary attachment
\* only if file downloading is enabled, the message has a fileUrl, the MIME
\* type of the file matches an entry of the allow-list (exactly, or by
\* category for a category/* entry) and the downloaded size is at most the
\* ceiling in bytes
C34_BinaryOnlyIfAllowed ==
  (last.op = "webhook" /\ "binary" \in DOMAIN last.msg) =>
     /\ params.fileHandling.downloadFiles
     /\ Truthy(Get(last.msg, "fileUrl"))
     /\ MimeMatches(last.msg.binary.mimeType, AllowedTypes(params.fileHandling))
     /\ last.msg.binary.fileSize <= MaxFileSize(params.fileHandling)

\* C35 (SpecReconnect): while the connection holds no socket, which is its
\* state from a disconnect() to the next connect() call, no reconnect is
\* scheduled, the reconnect counter is not incremented and no transport is
\* opened other than by a connect() call of the owner
C35_StaysDisconnected ==
  [][socket = 0 =>
        /\ Len(timers') <= Len(timers)
        /\ reconnectAttempts' <= reconnectAttempts
        /\ (socket' # 0 => last'.op = "connect")]_vars

\* C36 (SpecRegistry): the registry gains an entry only while the connection
\* is connected: a join acknowledgment that arrives after the connection left
\* that state adds no topic
C36_NoEntryUnlessConnected ==
  [][Len(subscriptions') > Len(subscriptions) => Connected]_vars

\* no transport of the connection is connecting or open
NoOpenTransport == \A s \in SocketIds : sockets[s] \notin {"connecting", "open"}

\* C37 (SpecTrigger): when trigger() has raised, no transport and no
\* subscription of that activation is left open and no reconnect is pending;
\* when the closeFunction of a successful activation has returned, no
\* transport is open and the registry is empty
C37_NothingLeftOpen ==
  /\ trigger.pc = "raised" =>
       (NoOpenTransport /\ subscriptions = <<>> /\ timers = <<>>)
  /\ (trigger.pc = "closed" /\ last.op = "disconnect" /\ last.res \in {"done", "noop"}) =>
       (NoOpenTransport /\ subscriptions = <<>>)

\* the fields of the request body are the fields of the message, with the
\* same values
SameFields(body, message) ==
  /\ DOMAIN body \subseteq DOMAIN message
  /\ \A k \in DOMAIN body : message[k] = body[k]

\* C38 (SpecFiles): processMessage, the filter and the dispatch branch leave
\* the object of the request body as it arrived, also while the call waits
\* for getCredentials or for the download and other requests are handled: the
\* file is attached to a copy only, and the message that processMessage hands
\* to the filter has every field of the request body, with the same value,
\* and no other field than the binary attachment
C38_MessageNotChanged ==
  /\ \A i \in 1..Len(requests) : requests[i].heap[1] = requests[i].body
  /\ \A i \in 1..Len(microtasks) :
       microtasks[i].op = "webhook" =>
          microtasks[i].request.heap[1] = microtasks[i].request.body
  /\ (last.op = "webhook" /\ last.res # "raised") =>
       /\ "binary" \notin DOMAIN last.inbound
       /\ SameFields(last.inbound, last.msg)
       /\ DOMAIN last.msg \subseteq DOMAIN last.inbound \cup {"binary"}

\* C38 witness: a message went through the filter with the file attached and
\* with the fileUrl, type and content of the request body, and the object of
\* the request body has no binary attachment
C38_Witness ==
  /\ last.op = "webhook"
  /\ "binary" \in DOMAIN last.msg
  /\ last.msg.fileUrl = "http://files/a.png"
  /\ last.msg.type = "user_message" /\ last.msg.content = "bye"
  /\ last.inbound = [type |-> "user_message", content |-> "bye",
                     fileUrl |-> "http://files/a.png"]

====
